---- MODULE Spec2Model ----
(***************************************************************************)
(* Model of dockerfabric/apiclient.py: the connection cache                *)
(* (DockerFabricConnections), the tunnel selection and close logic of      *)
(* DockerFabricClient, and the bootstrap ContainerFabric.from_env.         *)
(*                                                                         *)
(* Text values (URLs) are sequences of one-character strings, so that      *)
(* str.partition, str.startswith and ':'.join are computed, not assumed.   *)
(* None is modelled per type: NoUrl for a text, NoPort for a port,         *)
(* NoHost for a host string, NoTunnel for a tunnel reference.              *)
(***************************************************************************)
EXTENDS Integers, Sequences, FiniteSets, TLC

VARIABLES
    env,            \* fabric.api.env: the ambient remote-execution context
    connections,    \* the DockerFabricConnections dict: key -> client id
    clients,        \* every DockerFabricClient object built so far, by id
    tunnels,        \* every tunnel object built so far, by id
    socat_tunnels,  \* relay registry: (remote_host, local_port) -> tunnel id
    local_tunnels,  \* forward registry: (host, rport, 'localhost', lport) -> id
    calls,          \* history: one record per get_connection call
    built,          \* the latest direct constructor call, and how many were made
    closed,         \* the latest close() call, and how many were made
    boot,           \* the running from_env call (its locals and position)
    flows           \* concurrent callers of get_connection

vars == <<env, connections, clients, tunnels, socat_tunnels, local_tunnels,
          calls, built, closed, boot, flows>>

----------------------------------------------------------------------------
(* Bounds of the model. *)

MaxCalls == 3
MaxBuilt == 2
MaxCloses == 2
NumEphemeral == 1
MaxFlows == 2
MaxMaps == 2

----------------------------------------------------------------------------
(* Values. *)

NoUrl == << >>
NoPort == 0
NoHost == ""
NoTunnel == 0
NoClient == 0

UnixUrl == <<"u","n","i","x",":","/","s">>
HttpUnixUrl == <<"h","t","t","p","+","u","n","i","x",":","/","s">>
PathUrl == <<"/","s">>
TcpUrl == <<"t","c","p",":","/","/","d",":","9">>
BareHostUrl == <<"d">>
TrailingColonUrl == <<"d",":">>

Hosts == {"h1", "h2"}

----------------------------------------------------------------------------
(* Text helpers: what the Python string methods compute. *)

StartsWith(s, prefix) ==
    /\ Len(s) >= Len(prefix)
    /\ SubSeq(s, 1, Len(prefix)) = prefix

\* Index of the first ':' of s, or 0 when s holds none.
FirstColon(s) ==
    IF \E i \in 1..Len(s) : s[i] = ":"
    THEN CHOOSE i \in 1..Len(s) :
             /\ s[i] = ":"
             /\ \A j \in 1..(i-1) : s[j] # ":"
    ELSE 0

\* s.partition(':') -> (p1, sep, p2): split at the first ':'.
Partition(s) ==
    LET i == FirstColon(s) IN
    IF i = 0 THEN <<s, << >>, << >> >>
    ELSE <<SubSeq(s, 1, i-1), <<":">>, SubSeq(s, i+1, Len(s))>>

DigitChars == <<"0","1","2","3","4","5","6","7","8","9">>

RECURSIVE TextType(_)
\* six.text_type(n) for a non-negative integer: its decimal digits.
TextType(n) ==
    IF n < 10 THEN <<DigitChars[n+1]>>
    ELSE TextType(n \div 10) \o <<DigitChars[(n % 10) + 1]>>

\* Python's `a or b` on values whose only falsy value is None.
OrElse(a, b, none) == IF a # none THEN a ELSE b

----------------------------------------------------------------------------
(* get_connection: the cache key (apiclient.py line 29). *)

\* A plausible slip: key on the endpoint the constructor will use.
ConnKeyFromKwargs(e, kw) ==
    <<e.host_string, OrElse(kw.base_url, e.docker_base_url, NoUrl)>>

\* The key reads the ambient context only; the constructor kwargs play no part.
ConnKey(e, kw) == <<e.host_string, e.docker_base_url>>

----------------------------------------------------------------------------
(* DockerFabricClient.__init__ (apiclient.py lines 66-87), piece by piece. *)

\* line 67
RemotePort(kw, e) ==
    OrElse(kw.tunnel_remote_port, e.docker_tunnel_remote_port, NoPort)

\* lines 68-71; env.get('docker_tunnel_local_port', remote_port) returns the
\* ambient value when the key is set and remote_port otherwise.
InitLocalPort(kw, e) ==
    IF kw.tunnel_local_port = NoPort
    THEN IF e.docker_tunnel_local_port # NoPort
         THEN e.docker_tunnel_local_port
         ELSE RemotePort(kw, e)
    ELSE kw.tunnel_local_port

\* line 73
Url(kw, e) == OrElse(kw.base_url, e.docker_base_url, NoUrl)

\* A plausible slip: the remote-port test of line 76 left out.
UsesTunnelUrlOnly(kw, e) == Url(kw, e) # NoUrl

\* line 76
UsesTunnel(kw, e) == Url(kw, e) # NoUrl /\ RemotePort(kw, e) # NoPort

\* A plausible slip: rpartition for partition, the split made at the last ':'.
RemoteHostLastColon(url) ==
    LET colons == {i \in 1..Len(url) : url[i] = ":"}
        last == CHOOSE i \in colons : \A j \in colons : j <= i
    IN  IF colons = {} THEN url
        ELSE IF last < Len(url) THEN SubSeq(url, last + 1, Len(url))
        ELSE SubSeq(url, 1, last - 1)

\* lines 77-78: p1, __, p2 = url.partition(':'); remote_host = p2 or p1
RemoteHost(url) ==
    LET p == Partition(url) IN IF p[3] # << >> THEN p[3] ELSE p[1]

\* A plausible slip: 'unix:' matched but the other socket prefixes forgotten.
IsSocketUrlUnixOnly(url) == StartsWith(url, <<"u","n","i","x",":">>)

\* line 79
IsSocketUrl(url) ==
    \/ StartsWith(url, <<"h","t","t","p","+","u","n","i","x",":">>)
    \/ StartsWith(url, <<"u","n","i","x",":">>)
    \/ StartsWith(url, <<"/">>)

\* line 80: the key into socat_tunnels
SocatKey(url, local_port) == <<RemoteHost(url), local_port>>

\* line 82: the key into local_tunnels
LocalKey(url, remote_port, local_port) ==
    <<RemoteHost(url), remote_port, "localhost", local_port>>

\* line 83: ':'.join(('tcp://127.0.0.1', six.text_type(local_port)))
TunnelConnUrl(local_port) ==
    <<"t","c","p",":","/","/","1","2","7",".","0",".","0",".","1">>
        \o <<":">> \o TextType(local_port)

\* A plausible slip: the connect target built from the port asked for, not
\* from the one the allocator returned.
ConnUrlRequested(kw, e, local_port) ==
    IF UsesTunnel(kw, e) THEN TunnelConnUrl(InitLocalPort(kw, e)) ELSE Url(kw, e)

\* lines 83 and 86: the base_url handed to the underlying client
ConnUrl(kw, e, local_port) ==
    IF UsesTunnel(kw, e) THEN TunnelConnUrl(local_port) ELSE Url(kw, e)

----------------------------------------------------------------------------
(* The collaborators that live outside apiclient.py, modelled from their     *)
(* stated contracts: the port allocator (base.get_local_port), the two       *)
(* tunnel registries (socat.socat_tunnels, tunnel.local_tunnels) with their  *)
(* tunnels' close(), and ConnectionDict.get.                                 *)

EphemeralBase == 49152
EphemeralPorts == EphemeralBase..(EphemeralBase + NumEphemeral - 1)

LiveTunnels == {i \in 1..Len(tunnels) : tunnels[i].live}

\* The local ports bound by live tunnels.
BoundPorts == {tunnels[i].local_port : i \in LiveTunnels}

\* The ports the allocator handed to constructors that have not yet reached
\* their tunnel registry (between line 72 and lines 80/82).  The allocator
\* reserves what it returns, so that a second request made in between sees
\* the port as taken.
ReservedPorts ==
    {flows[f].local_port : f \in {g \in DOMAIN flows : flows[g].pc = "allocated"}}

\* get_local_port(init_port): the set of ports the allocator may return, the
\* requested one when it is free and else any free ephemeral port; the empty
\* set when no port can be obtained (the call raises).
GetLocalPort(init_port) ==
    IF init_port # NoPort /\ init_port \notin (BoundPorts \cup ReservedPorts)
    THEN {init_port}
    ELSE EphemeralPorts \ (BoundPorts \cup ReservedPorts)

\* registry[key]: the registered tunnel, or a new one created, started and
\* registered under key.
Acquire(reg, kind, key, local_port) ==
    IF key \in DOMAIN reg
    THEN [id |-> reg[key], tunnels |-> tunnels, reg |-> reg]
    ELSE [id |-> Len(tunnels) + 1,
          tunnels |-> Append(tunnels, [kind |-> kind, key |-> key,
                                       local_port |-> local_port,
                                       live |-> TRUE, closeCalls |-> 0]),
          reg |-> reg @@ (key :> (Len(tunnels) + 1))]

\* registry after tunnel t was closed: its entry, if it still names t, is gone.
Release(reg, t) == [k \in {x \in DOMAIN reg : reg[x] # t} |-> reg[k]]

----------------------------------------------------------------------------
\* A plausible slip: the hint used as the local port, the allocator not asked.
LocalPortUnallocated(kw, e) == {InitLocalPort(kw, e)}

\* line 72: local_port = get_local_port(init_local_port); the ports the call
\* may return, none when it raises.
LocalPort(kw, e) == GetLocalPort(InitLocalPort(kw, e))

----------------------------------------------------------------------------
(* DockerFabricClient.__init__ as a whole (lines 66-87): the state after    *)
(* the constructor ran with the allocator returning local_port.  When the   *)
(* underlying client constructor raises (line 87), the tunnel acquired on   *)
(* lines 80/82 stays registered and no client object results.               *)

\* lines 73-86: the tunnel acquired for the endpoint, if one is used, and the
\* connect target; the registries as the lookup leaves them.
TunnelFor(kw, e, local_port) ==
    LET url == Url(kw, e)
        remote_port == RemotePort(kw, e)
        socket == IsSocketUrl(url)
        acq == IF ~UsesTunnel(kw, e)
               THEN [id |-> NoTunnel, tunnels |-> tunnels, reg |-> << >>]
               ELSE IF socket
                    THEN Acquire(socat_tunnels, "relay",
                                 SocatKey(url, local_port), local_port)
                    ELSE Acquire(local_tunnels, "forward",
                                 LocalKey(url, remote_port, local_port), local_port)
    IN  [tunnel |-> acq.id,
         conn_url |-> ConnUrl(kw, e, local_port),
         tunnels |-> acq.tunnels,
         socat_tunnels |-> IF UsesTunnel(kw, e) /\ socket
                           THEN acq.reg ELSE socat_tunnels,
         local_tunnels |-> IF UsesTunnel(kw, e) /\ ~socket
                           THEN acq.reg ELSE local_tunnels]

\* line 87: the client object once the underlying constructor has returned
NewClient(conn_url, tunnel) ==
    [base_url |-> conn_url, tunnel |-> tunnel, open |-> TRUE,
     closeCalls |-> 0, cleanCloses |-> 0]

Construct(kw, e, local_port, super_fails) ==
    LET t == TunnelFor(kw, e, local_port)
        self == NewClient(t.conn_url, t.tunnel)
    IN  [raised |-> super_fails,
         id |-> IF super_fails THEN NoClient ELSE Len(clients) + 1,
         local_port |-> local_port,
         clients |-> IF super_fails THEN clients ELSE Append(clients, self),
         tunnels |-> t.tunnels,
         socat_tunnels |-> t.socat_tunnels,
         local_tunnels |-> t.local_tunnels]

\* A plausible slip: the allocator's failure swallowed and the hint used.
ConstructOutcomesIgnoringFailure(kw, e) ==
    LET ports == IF LocalPort(kw, e) = {} THEN {InitLocalPort(kw, e)}
                 ELSE LocalPort(kw, e)
    IN  {Construct(kw, e, p, f) : p \in ports, f \in BOOLEAN}

\* Every way one constructor call can end: the allocator raising (line 72),
\* or each port it may return, with line 87 raising or not.
ConstructOutcomes(kw, e) ==
    LET ports == LocalPort(kw, e) IN
    IF ports = {}
    THEN {[raised |-> TRUE, id |-> NoClient, local_port |-> NoPort,
           clients |-> clients, tunnels |-> tunnels,
           socat_tunnels |-> socat_tunnels, local_tunnels |-> local_tunnels]}
    ELSE {Construct(kw, e, p, f) : p \in ports, f \in BOOLEAN}

\* ConnectionDict.get(key, DockerFabricClient, **kw): the cached client when
\* key is present; otherwise the constructor is run and, unless it raised,
\* its client is inserted under key.
CacheGet(key, kw, e) ==
    IF key \in DOMAIN connections
    THEN {[raised |-> FALSE, ret |-> connections[key], ctor |-> FALSE,
           connections |-> connections, clients |-> clients, tunnels |-> tunnels,
           socat_tunnels |-> socat_tunnels, local_tunnels |-> local_tunnels]}
    ELSE {[raised |-> c.raised, ret |-> c.id, ctor |-> TRUE,
           connections |-> IF c.raised THEN connections
                           ELSE connections @@ (key :> c.id),
           clients |-> c.clients, tunnels |-> c.tunnels,
           socat_tunnels |-> c.socat_tunnels,
           local_tunnels |-> c.local_tunnels] : c \in ConstructOutcomes(kw, e)}

\* The effect of one outcome on the objects and registries.
Install(o) ==
    /\ clients' = o.clients
    /\ tunnels' = o.tunnels
    /\ socat_tunnels' = o.socat_tunnels
    /\ local_tunnels' = o.local_tunnels

----------------------------------------------------------------------------
(* The inputs the actions draw from. *)

NoKwargs == [base_url |-> NoUrl, tunnel_remote_port |-> NoPort,
             tunnel_local_port |-> NoPort]

\* Constructor kwargs handed to get_connection.
CallKwargs ==
    {NoKwargs,
     [base_url |-> TcpUrl, tunnel_remote_port |-> 2376, tunnel_local_port |-> NoPort]}

EnvUrls == {NoUrl, UnixUrl}

InitEnvs ==
    [host_string : Hosts, docker_base_url : EnvUrls,
     docker_tunnel_remote_port : {2375},
     docker_tunnel_local_port : {NoPort}]

NoBuild == [n |-> 0, kw |-> NoKwargs, raised |-> FALSE, id |-> NoClient,
            requested |-> NoPort, local_port |-> NoPort, acquired |-> FALSE]

NoClose == [n |-> 0, client |-> NoClient, nth |-> 0, conn_raised |-> FALSE,
            tunnel_attempted |-> FALSE, tunnel_raised |-> FALSE,
            surfaced |-> "none", was_closed |-> FALSE]

NoBoot == [pc |-> "off", maps |-> << >>, configs |-> << >>, mi |-> 0,
           todo |-> {}, current_clients |-> << >>, cur |-> "",
           saved_host |-> NoHost, outcome |-> "none", log |-> << >>,
           default_client |-> NoClient, start_host |-> NoHost]

----------------------------------------------------------------------------
(* Spec: one caller using the process-wide cache.  The caller moves between *)
(* remote-execution contexts (SetEnv), asks for connections                 *)
(* (GetConnection) and closes clients it holds (Close).                     *)

Init ==
    /\ env \in InitEnvs
    /\ connections = << >>
    /\ clients = << >>
    /\ tunnels = << >>
    /\ socat_tunnels = << >>
    /\ local_tunnels = << >>
    /\ calls = << >>
    /\ built = NoBuild
    /\ closed = NoClose
    /\ boot = NoBoot
    /\ flows = << >>

\* The caller enters another context (fabric's settings / env assignment).
SetEnv(h, u) ==
    /\ Len(calls) < MaxCalls
    /\ <<h, u>> # <<env.host_string, env.docker_base_url>>
    /\ env' = [env EXCEPT !.host_string = h, !.docker_base_url = u]
    /\ UNCHANGED <<connections, clients, tunnels, socat_tunnels, local_tunnels,
                   calls, built, closed, boot, flows>>

\* One call record: the ambient pair at the call, the endpoint and the local
\* port request the kwargs and the context resolve to, and what the call gave
\* back.
CallRecord(e, kw, o) ==
    [host |-> e.host_string, url |-> e.docker_base_url, target |-> Url(kw, e),
     requested |-> InitLocalPort(kw, e),
     ret |-> o.ret, ctor |-> o.ctor, raised |-> o.raised]

\* DockerFabricConnections.get_connection(**kw), lines 20-30.
GetConnection(kw) ==
    /\ Len(calls) < MaxCalls
    /\ \E o \in CacheGet(ConnKey(env, kw), kw, env) :
          /\ connections' = o.connections
          /\ Install(o)
          /\ calls' = Append(calls, CallRecord(env, kw, o))
    /\ UNCHANGED <<env, built, closed, boot, flows>>

\* A plausible slip: no try/finally, so a failed connection close skips the
\* tunnel.
TunnelCloseSkippedOnError(self, conn_fails) ==
    self.tunnel # NoTunnel /\ ~conn_fails

\* A plausible slip: close() closing the connection only.
TunnelCloseForgotten(self, conn_fails) == FALSE

\* lines 116-120: the finally block runs whether or not line 117 raised, and
\* closes the tunnel whenever the client has one.
TunnelCloseAttempted(self, conn_fails) == self.tunnel # NoTunnel

\* The exception close() ends with: one raised in the finally block replaces
\* the one in flight; otherwise the one from line 117 propagates.
Surfaced(conn_fails, tunnel_raised) ==
    IF tunnel_raised THEN "tunnel" ELSE IF conn_fails THEN "conn" ELSE "none"

\* DockerFabricClient.close(), lines 112-120.  conn_fails: the underlying
\* close raises; tunnel_fails: the tunnel's close raises.
Close(c, conn_fails, tunnel_fails) ==
    /\ c \in 1..Len(clients)
    /\ closed.n < MaxCloses
    /\ LET self == clients[c]
           t == self.tunnel
           attempted == TunnelCloseAttempted(self, conn_fails)
           released == attempted /\ ~tunnel_fails
       IN  /\ clients' = [clients EXCEPT
                  ![c].open = IF conn_fails THEN @ ELSE FALSE,
                  ![c].closeCalls = @ + 1,
                  ![c].cleanCloses =
                      IF Surfaced(conn_fails, attempted /\ tunnel_fails) = "none"
                      THEN @ + 1 ELSE @]
           /\ tunnels' = IF attempted
                         THEN [tunnels EXCEPT
                                  ![t].closeCalls = @ + 1,
                                  ![t].live = IF released THEN FALSE ELSE @]
                         ELSE tunnels
           /\ socat_tunnels' = IF released THEN Release(socat_tunnels, t)
                               ELSE socat_tunnels
           /\ local_tunnels' = IF released THEN Release(local_tunnels, t)
                               ELSE local_tunnels
           /\ closed' =
                  [n |-> closed.n + 1,
                   client |-> c,
                   nth |-> self.closeCalls + 1,
                   conn_raised |-> conn_fails,
                   tunnel_attempted |-> attempted,
                   tunnel_raised |-> attempted /\ tunnel_fails,
                   surfaced |-> Surfaced(conn_fails, attempted /\ tunnel_fails),
                   was_closed |-> self.cleanCloses > 0]
    /\ UNCHANGED <<env, connections, calls, built, boot, flows>>

Next ==
    \/ \E h \in Hosts, u \in EnvUrls : SetEnv(h, u)
    \/ \E kw \in CallKwargs : GetConnection(kw)
    \/ \E c \in 1..Len(clients) : Close(c, FALSE, FALSE)

Spec == Init /\ [][Next]_vars

----------------------------------------------------------------------------
(* SpecCtor: clients constructed directly, in one fixed ambient context     *)
(* drawn at the start, and closed with either close step free to raise.     *)

CtorEnvUrls ==
    {NoUrl, UnixUrl, HttpUnixUrl, PathUrl, TcpUrl, BareHostUrl, TrailingColonUrl}

CtorEnvs ==
    [host_string : {"h1"}, docker_base_url : CtorEnvUrls,
     docker_tunnel_remote_port : {NoPort, 2375},
     docker_tunnel_local_port : {NoPort, 2376}]

CtorKwargs ==
    {NoKwargs,
     [base_url |-> TcpUrl, tunnel_remote_port |-> 2375, tunnel_local_port |-> NoPort],
     [base_url |-> NoUrl, tunnel_remote_port |-> 2376, tunnel_local_port |-> 2375]}

InitCtor ==
    /\ env \in CtorEnvs
    /\ connections = << >>
    /\ clients = << >>
    /\ tunnels = << >>
    /\ socat_tunnels = << >>
    /\ local_tunnels = << >>
    /\ calls = << >>
    /\ built = NoBuild
    /\ closed = NoClose
    /\ boot = NoBoot
    /\ flows = << >>

\* DockerFabricClient(**kw), lines 66-87.  The record keeps the count of
\* constructor calls, the kwargs, the
\* port asked of the allocator and the one it returned, and whether the call
\* touched a tunnel registry.
Build(kw) ==
    /\ built.n < MaxBuilt
    /\ \E o \in ConstructOutcomes(kw, env) :
          /\ Install(o)
          /\ built' =
                 [n |-> built.n + 1, kw |-> kw, raised |-> o.raised, id |-> o.id,
                  requested |-> InitLocalPort(kw, env),
                  local_port |-> o.local_port,
                  acquired |-> \/ o.tunnels # tunnels
                               \/ o.socat_tunnels # socat_tunnels
                               \/ o.local_tunnels # local_tunnels]
    /\ UNCHANGED <<env, connections, calls, closed, boot, flows>>

NextCtor ==
    \/ \E kw \in CtorKwargs : Build(kw)
    \/ \E c \in 1..Len(clients), cf \in BOOLEAN, tf \in BOOLEAN : Close(c, cf, tf)

SpecCtor == InitCtor /\ [][NextCtor]_vars

----------------------------------------------------------------------------
(* SpecBoot: one call of ContainerFabric.from_env (lines 300-336) followed  *)
(* by ContainerFabric.__init__ (lines 292-298), taken step by step.         *)
(* docker_maps is given as a list; each map lists its own clients and, per  *)
(* container configuration, that configuration's clients.                   *)

Range(f) == {f[x] : x \in DOMAIN f}

ClientNames == {"a", "b"}

\* all_configs.get(name) when name is not configured.
NoConfig == [fabric_host |-> NoHost, base_url |-> NoUrl,
             tunnel_remote_port |-> NoPort, tunnel_local_port |-> NoPort,
             present |-> FALSE]

ConfigValues ==
    {[fabric_host |-> "h1", base_url |-> UnixUrl, tunnel_remote_port |-> 2375,
      tunnel_local_port |-> NoPort, present |-> TRUE],
     [fabric_host |-> "h1", base_url |-> TcpUrl, tunnel_remote_port |-> 2375,
      tunnel_local_port |-> NoPort, present |-> TRUE],
     [fabric_host |-> "h2", base_url |-> UnixUrl, tunnel_remote_port |-> 2375,
      tunnel_local_port |-> NoPort, present |-> TRUE],
     [fabric_host |-> NoHost, base_url |-> UnixUrl, tunnel_remote_port |-> 2375,
      tunnel_local_port |-> NoPort, present |-> TRUE]}

\* The client_configs dictionaries: any subset of the names configured.
ClientConfigs ==
    UNION {[S -> ConfigValues] : S \in SUBSET ClientNames}

MapChoices ==
    {[name |-> "m1", clients |-> <<"a">>, configs |-> << << >>, <<"b">> >>],
     [name |-> "m2", clients |-> <<"a", "b">>, configs |-> << << >> >>],
     [name |-> "m3", clients |-> << >>, configs |-> << <<"b", "a">> >>]}

DockerMaps == UNION {[1..n -> MapChoices] : n \in 1..MaxMaps}

BootEnvs ==
    [host_string : {"h0", "h1"}, docker_base_url : {NoUrl, UnixUrl},
     docker_tunnel_remote_port : {NoPort},
     docker_tunnel_local_port : {NoPort}]

\* lines 321-324: set(c_map.clients) updated with every configuration's
\* clients
MapClients(c_map) ==
    Range(c_map.clients) \cup
        UNION {Range(c_map.configs[i]) : i \in DOMAIN c_map.configs}

\* A plausible slip: the membership test of line 326 left out.
AlwaysNeedsConnection(map_client, current_clients) == TRUE

\* line 326
NeedsConnection(map_client, current_clients) ==
    map_client \notin DOMAIN current_clients

\* line 327: all_configs.get(map_client)
ConfigGet(all_configs, map_client) ==
    IF map_client \in DOMAIN all_configs THEN all_configs[map_client] ELSE NoConfig

\* A plausible slip: the test of line 328 left out.
ConfigNeverMissing(client_config) == FALSE

\* line 328: not client_config
ConfigMissing(client_config) == ~client_config.present

\* A plausible slip: the test of line 331 left out.
HostNeverMissing(client_config) == FALSE

\* lines 330-331: not client_config.get('fabric_host')
HostMissing(client_config) == client_config.fabric_host = NoHost

\* line 334: client_config.get_init_kwargs()
InitKwargs(client_config) ==
    [base_url |-> client_config.base_url,
     tunnel_remote_port |-> client_config.tunnel_remote_port,
     tunnel_local_port |-> client_config.tunnel_local_port]

\* A plausible slip: the default client of line 296 never requested.
NoDefaultContext(e) == FALSE

\* line 296: 'host_string' in env and 'docker_base_url' in env.  fabric's env
\* always holds host_string; docker_base_url is there once it was set.
HasDefaultContext(e) == e.docker_base_url # NoUrl

\* A plausible slip: the host restored on the normal exit only, no finally.
HostKeptOnError(e, saved_host, raised) ==
    IF raised THEN e.host_string ELSE saved_host

\* line 333, leaving the with block: fabric's settings() puts back the value
\* it replaced, whether the block ended normally or raised.
RestoredHost(e, saved_host, raised) == saved_host

InitBoot ==
    /\ env \in BootEnvs
    /\ connections = << >>
    /\ clients = << >>
    /\ tunnels = << >>
    /\ socat_tunnels = << >>
    /\ local_tunnels = << >>
    /\ calls = << >>
    /\ built = NoBuild
    /\ closed = NoClose
    /\ \E maps \in DockerMaps, configs \in ClientConfigs :
          boot = [NoBoot EXCEPT !.pc = "map", !.maps = maps,
                                !.configs = configs, !.mi = 1,
                                !.start_host = env.host_string]
    /\ flows = << >>

Event(ev, name, host, ret) == [ev |-> ev, name |-> name, host |-> host, ret |-> ret]

\* line 320-324: the next map, or the end of the loop
BootMap ==
    /\ boot.pc = "map"
    /\ IF boot.mi > Len(boot.maps)
       THEN boot' = [boot EXCEPT !.pc = "finish"]
       ELSE boot' = [boot EXCEPT !.pc = "client",
                                 !.todo = MapClients(boot.maps[boot.mi])]
    /\ UNCHANGED <<env, connections, clients, tunnels, socat_tunnels,
                   local_tunnels, calls, built, closed, flows>>

\* lines 325-333: the next client of the set, in whatever order the set
\* yields it; the two checks, and entering settings(host_string=...)
BootClient ==
    /\ boot.pc = "client"
    /\ IF boot.todo = {}
       THEN /\ boot' = [boot EXCEPT !.pc = "map", !.mi = @ + 1]
            /\ UNCHANGED env
       ELSE \E map_client \in boot.todo :
            LET client_config == ConfigGet(boot.configs, map_client)
                rest == [boot EXCEPT !.todo = @ \ {map_client}, !.cur = map_client]
            IN  IF ~NeedsConnection(map_client, boot.current_clients)
                THEN /\ boot' = [boot EXCEPT !.todo = @ \ {map_client}]
                     /\ UNCHANGED env
                ELSE IF ConfigMissing(client_config)
                THEN /\ boot' = [rest EXCEPT !.pc = "raised",
                                             !.outcome = "not_configured"]
                     /\ UNCHANGED env
                ELSE IF HostMissing(client_config)
                THEN /\ boot' = [rest EXCEPT !.pc = "raised",
                                             !.outcome = "no_fabric_host"]
                     /\ UNCHANGED env
                ELSE /\ boot' = [rest EXCEPT
                            !.pc = "connect",
                            !.saved_host = env.host_string,
                            !.log = Append(@, Event("switch", map_client,
                                           client_config.fabric_host, NoClient))]
                     /\ env' = [env EXCEPT !.host_string = client_config.fabric_host]
    /\ UNCHANGED <<connections, clients, tunnels, socat_tunnels, local_tunnels,
                   calls, built, closed, flows>>

\* line 334 and the exit of the with block: docker_fabric(**kwargs) under the
\* switched host, the result stored, the host restored (also on an error)
BootConnect ==
    /\ boot.pc = "connect"
    /\ LET kw == InitKwargs(ConfigGet(boot.configs, boot.cur)) IN
       \E o \in CacheGet(ConnKey(env, kw), kw, env) :
          /\ connections' = o.connections
          /\ Install(o)
          /\ calls' = Append(calls, CallRecord(env, kw, o))
          /\ env' = [env EXCEPT
                 !.host_string = RestoredHost(env, boot.saved_host, o.raised)]
          /\ boot' = [boot EXCEPT
                 !.pc = IF o.raised THEN "raised" ELSE "client",
                 !.outcome = IF o.raised THEN "connection_error" ELSE @,
                 !.current_clients =
                     IF o.raised THEN @
                     ELSE [n \in DOMAIN @ \cup {boot.cur} |->
                              IF n = boot.cur THEN o.ret ELSE @[n]],
                 !.log = Append(@, Event("request", boot.cur, env.host_string, o.ret))]
    /\ UNCHANGED <<built, closed, flows>>

\* line 336 with lines 292-298: cls(all_maps, clients=current_clients); no
\* docker_client is passed, so the default client is docker_fabric() when the
\* ambient context names a host and an endpoint
BootFinish ==
    /\ boot.pc = "finish"
    /\ IF HasDefaultContext(env)
       THEN \E o \in CacheGet(ConnKey(env, NoKwargs), NoKwargs, env) :
               /\ connections' = o.connections
               /\ Install(o)
               /\ calls' = Append(calls, CallRecord(env, NoKwargs, o))
               /\ boot' = [boot EXCEPT
                      !.pc = IF o.raised THEN "raised" ELSE "done",
                      !.outcome = IF o.raised THEN "connection_error" ELSE "returned",
                      !.default_client = o.ret,
                      !.log = Append(@, Event("default", "", env.host_string, o.ret))]
       ELSE /\ boot' = [boot EXCEPT !.pc = "done", !.outcome = "returned"]
            /\ UNCHANGED <<connections, clients, tunnels, socat_tunnels,
                           local_tunnels, calls>>
    /\ UNCHANGED <<env, built, closed, flows>>

NextBoot ==
    \/ BootMap
    \/ BootClient
    \/ BootConnect
    \/ BootFinish

SpecBoot == InitBoot /\ [][NextBoot]_vars

----------------------------------------------------------------------------
(* SpecConc: several flows call get_connection on the shared cache.  A flow *)
(* reads its key from the ambient context with the two reads of line 29,    *)
(* env.get('host_string') and then env.get('docker_base_url'), and calls    *)
(* self.get (line 30), which looks the key up and, on a miss, runs the      *)
(* constructor (lines 66-87) and stores its client under the key.  The get  *)
(* is one unit towards other gets: from the lookup to the store no other    *)
(* flow enters self.get.  The constructor inside it still runs step by      *)
(* step, the allocator call (line 72), the registry lookup (lines 80/82)    *)
(* and the underlying constructor (line 87), and flows outside self.get,    *)
(* reading their key or changing the ambient context, may come in between,  *)
(* also between the two reads of one key.  Each flow makes one call.        *)

IdleFlow == [pc |-> "idle", pair |-> <<NoHost, NoUrl>>,
             key |-> <<NoHost, NoUrl>>, kw |-> NoKwargs,
             local_port |-> NoPort, tunnel |-> NoTunnel, conn_url |-> NoUrl,
             id |-> NoClient]

InitConc ==
    /\ env \in InitEnvs
    /\ connections = << >>
    /\ clients = << >>
    /\ tunnels = << >>
    /\ socat_tunnels = << >>
    /\ local_tunnels = << >>
    /\ calls = << >>
    /\ built = NoBuild
    /\ closed = NoClose
    /\ boot = NoBoot
    /\ flows = [f \in 1..MaxFlows |-> IdleFlow]

\* The flows that are inside self.get with a constructor under way.
Pending == {f \in DOMAIN flows :
               flows[f].pc \in {"missed", "allocated", "acquired", "built"}}

\* self.get is free: no flow is between its lookup and its store.
GetIsFree == Pending = {}

\* The record of the call flow f made: the pair of values its two reads of
\* line 29 returned, whether another flow was waiting with a key read as the
\* same pair when the call ended, what it got, and whether it ran the
\* constructor.
FlowRecord(f, ret, ctor, raised) ==
    [pair |-> flows[f].pair, flow |-> f,
     racing |-> \E g \in DOMAIN flows \ {f} :
                    flows[g].pc = "keyed" /\ flows[g].pair = flows[f].pair,
     ret |-> ret, ctor |-> ctor, raised |-> raised]

\* line 29 in flow f, first read: env.get('host_string')
FlowKeyHost(f, kw) ==
    /\ flows[f].pc = "idle"
    /\ flows' = [flows EXCEPT ![f] =
           [IdleFlow EXCEPT
               !.pc = "host_read",
               !.pair = <<env.host_string, NoUrl>>,
               !.kw = kw]]
    /\ UNCHANGED <<env, connections, clients, tunnels, socat_tunnels,
                   local_tunnels, calls, built, closed, boot>>

\* line 29 in flow f, second read: env.get('docker_base_url'), read from the
\* context as it is now, and the key formed of the two values read
FlowKeyUrl(f) ==
    /\ flows[f].pc = "host_read"
    /\ LET host_string == flows[f].pair[1]
           seen == [env EXCEPT !.host_string = host_string]
       IN  flows' = [flows EXCEPT
               ![f].pc = "keyed",
               ![f].pair = <<host_string, env.docker_base_url>>,
               ![f].key = ConnKey(seen, flows[f].kw)]
    /\ UNCHANGED <<env, connections, clients, tunnels, socat_tunnels,
                   local_tunnels, calls, built, closed, boot>>

\* line 30 in flow f, entering self.get once it is free: the key looked up;
\* a hit returns the cached client, a miss goes on to the constructor with
\* the other flows kept out of self.get
FlowLookup(f) ==
    /\ flows[f].pc = "keyed"
    /\ GetIsFree
    /\ IF flows[f].key \in DOMAIN connections
       THEN /\ flows' = [flows EXCEPT ![f].pc = "done",
                                      ![f].id = connections[flows[f].key]]
            /\ calls' = Append(calls,
                   FlowRecord(f, connections[flows[f].key], FALSE, FALSE))
       ELSE /\ flows' = [flows EXCEPT ![f].pc = "missed"]
            /\ UNCHANGED calls
    /\ UNCHANGED <<env, connections, clients, tunnels, socat_tunnels,
                   local_tunnels, built, closed, boot>>

\* lines 67-72 in flow f: the allocator asked; its error ends the call
FlowAlloc(f) ==
    /\ flows[f].pc = "missed"
    /\ IF LocalPort(flows[f].kw, env) = {}
       THEN /\ flows' = [flows EXCEPT ![f].pc = "done"]
            /\ calls' = Append(calls, FlowRecord(f, NoClient, TRUE, TRUE))
       ELSE /\ \E p \in LocalPort(flows[f].kw, env) :
                  flows' = [flows EXCEPT ![f].pc = "allocated",
                                         ![f].local_port = p]
            /\ UNCHANGED calls
    /\ UNCHANGED <<env, connections, clients, tunnels, socat_tunnels,
                   local_tunnels, built, closed, boot>>

\* lines 73-86 in flow f: the tunnel acquired under the port obtained earlier
FlowAcquire(f) ==
    /\ flows[f].pc = "allocated"
    /\ LET t == TunnelFor(flows[f].kw, env, flows[f].local_port) IN
       /\ tunnels' = t.tunnels
       /\ socat_tunnels' = t.socat_tunnels
       /\ local_tunnels' = t.local_tunnels
       /\ flows' = [flows EXCEPT ![f].pc = "acquired",
                                 ![f].tunnel = t.tunnel,
                                 ![f].conn_url = t.conn_url]
    /\ UNCHANGED <<env, connections, clients, calls, built, closed, boot>>

\* line 87 in flow f: the underlying constructor, which may raise; its error
\* ends the call with the tunnel left as acquired
FlowSuper(f) ==
    /\ flows[f].pc = "acquired"
    /\ \E super_fails \in BOOLEAN :
          IF super_fails
          THEN /\ flows' = [flows EXCEPT ![f].pc = "done"]
               /\ calls' = Append(calls, FlowRecord(f, NoClient, TRUE, TRUE))
               /\ UNCHANGED clients
          ELSE /\ clients' = Append(clients,
                      NewClient(flows[f].conn_url, flows[f].tunnel))
               /\ flows' = [flows EXCEPT ![f].pc = "built",
                                         ![f].id = Len(clients) + 1]
               /\ UNCHANGED calls
    /\ UNCHANGED <<env, connections, tunnels, socat_tunnels, local_tunnels,
                   built, closed, boot>>

\* leaving self.get in flow f: the new client stored under the key, which
\* no other flow can have filled since the lookup, and returned
FlowInsert(f) ==
    /\ flows[f].pc = "built"
    /\ connections' = connections @@ (flows[f].key :> flows[f].id)
    /\ calls' = Append(calls, FlowRecord(f, flows[f].id, TRUE, FALSE))
    /\ flows' = [flows EXCEPT ![f].pc = "done"]
    /\ UNCHANGED <<env, clients, tunnels, socat_tunnels, local_tunnels,
                   built, closed, boot>>

\* Some flow that is not inside a call enters another context, host and
\* endpoint set in one update.
ConcSetEnv(h, u) ==
    /\ \E f \in DOMAIN flows : flows[f].pc \in {"idle", "done"}
    /\ <<h, u>> # <<env.host_string, env.docker_base_url>>
    /\ env' = [env EXCEPT !.host_string = h, !.docker_base_url = u]
    /\ UNCHANGED <<connections, clients, tunnels, socat_tunnels, local_tunnels,
                   calls, built, closed, boot, flows>>

NextConc ==
    \/ \E f \in 1..MaxFlows, kw \in CallKwargs : FlowKeyHost(f, kw)
    \/ \E f \in 1..MaxFlows : FlowKeyUrl(f)
    \/ \E f \in 1..MaxFlows : FlowLookup(f)
    \/ \E f \in 1..MaxFlows : FlowAlloc(f)
    \/ \E f \in 1..MaxFlows : FlowAcquire(f)
    \/ \E f \in 1..MaxFlows : FlowSuper(f)
    \/ \E f \in 1..MaxFlows : FlowInsert(f)
    \/ \E h \in Hosts, u \in EnvUrls : ConcSetEnv(h, u)

SpecConc == InitConc /\ [][NextConc]_vars

----------------------------------------------------------------------------
(* SpecPar: several flows construct clients directly, their constructors    *)
(* interleaving.  A constructor first obtains its local port (lines 67-72), *)
(* later reaches the tunnel registry (lines 73-86) and last the underlying  *)
(* constructor (line 87); a close() first closes the connection (line 117)  *)
(* and later the tunnel (lines 119-120).  Constructors and closes of other  *)
(* flows may come in between.  Each flow constructs one client and may then *)
(* close it, more than once.                                                *)

ParEnvs ==
    [host_string : {"h1"}, docker_base_url : {UnixUrl},
     docker_tunnel_remote_port : {2375},
     docker_tunnel_local_port : {NoPort}]

ParKwargs ==
    {NoKwargs,
     [base_url |-> TcpUrl, tunnel_remote_port |-> NoPort, tunnel_local_port |-> NoPort],
     [base_url |-> NoUrl, tunnel_remote_port |-> NoPort,
      tunnel_local_port |-> EphemeralBase]}

\* overlap: another constructor held a port it had not yet bound when this
\* one asked for its own.
IdleCtor == [pc |-> "idle", kw |-> NoKwargs, local_port |-> NoPort,
             overlap |-> FALSE, tunnel |-> NoTunnel, conn_url |-> NoUrl,
             id |-> NoClient]

InitPar ==
    /\ env \in ParEnvs
    /\ connections = << >>
    /\ clients = << >>
    /\ tunnels = << >>
    /\ socat_tunnels = << >>
    /\ local_tunnels = << >>
    /\ calls = << >>
    /\ built = NoBuild
    /\ closed = NoClose
    /\ boot = NoBoot
    /\ flows = [f \in 1..MaxFlows |-> IdleCtor]

\* lines 67-72 in flow f: the hints resolved and the allocator asked
CtorAlloc(f, kw) ==
    /\ flows[f].pc = "idle"
    /\ IF LocalPort(kw, env) = {}
       THEN flows' = [flows EXCEPT ![f] = [IdleCtor EXCEPT !.pc = "raised", !.kw = kw]]
       ELSE \E p \in LocalPort(kw, env) :
               flows' = [flows EXCEPT ![f] =
                   [IdleCtor EXCEPT
                       !.pc = "allocated", !.kw = kw, !.local_port = p,
                       !.overlap = \E g \in DOMAIN flows :
                                       flows[g].pc = "allocated"]]
    /\ UNCHANGED <<env, connections, clients, tunnels, socat_tunnels,
                   local_tunnels, calls, built, closed, boot>>

\* lines 73-86 in flow f: the tunnel acquired under the port obtained earlier
CtorAcquire(f) ==
    /\ flows[f].pc = "allocated"
    /\ LET t == TunnelFor(flows[f].kw, env, flows[f].local_port) IN
       /\ tunnels' = t.tunnels
       /\ socat_tunnels' = t.socat_tunnels
       /\ local_tunnels' = t.local_tunnels
       /\ flows' = [flows EXCEPT ![f].pc = "acquired",
                                 ![f].tunnel = t.tunnel,
                                 ![f].conn_url = t.conn_url]
    /\ UNCHANGED <<env, connections, clients, calls, built, closed, boot>>

\* line 87 in flow f: the underlying constructor, which may raise
CtorSuper(f) ==
    /\ flows[f].pc = "acquired"
    /\ \E super_fails \in BOOLEAN :
          IF super_fails
          THEN /\ flows' = [flows EXCEPT ![f].pc = "raised"]
               /\ UNCHANGED clients
          ELSE /\ clients' = Append(clients,
                      NewClient(flows[f].conn_url, flows[f].tunnel))
               /\ flows' = [flows EXCEPT ![f].pc = "done",
                                         ![f].id = Len(clients) + 1]
    /\ UNCHANGED <<env, connections, tunnels, socat_tunnels, local_tunnels,
                   calls, built, closed, boot>>

\* The flows that are inside close(), between line 117 and line 120.
Closing == {f \in DOMAIN flows : flows[f].pc = "closing"}

\* line 117 in flow f, closing the client it built: the connection closed,
\* the tunnel not yet touched
ParCloseConn(f) ==
    /\ flows[f].pc = "done"
    /\ closed.n + Cardinality(Closing) < MaxCloses
    /\ clients' = [clients EXCEPT ![flows[f].id].open = FALSE]
    /\ flows' = [flows EXCEPT ![f].pc = "closing"]
    /\ UNCHANGED <<env, connections, tunnels, socat_tunnels, local_tunnels,
                   calls, built, closed, boot>>

\* lines 118-120 in flow f: the finally block closes the tunnel when the
\* client has one, and close() returns
ParCloseTunnel(f) ==
    /\ flows[f].pc = "closing"
    /\ LET c == flows[f].id
           self == clients[c]
           t == self.tunnel
           attempted == TunnelCloseAttempted(self, FALSE)
       IN  /\ clients' = [clients EXCEPT ![c].closeCalls = @ + 1,
                                         ![c].cleanCloses = @ + 1]
           /\ tunnels' = IF attempted
                         THEN [tunnels EXCEPT ![t].closeCalls = @ + 1,
                                              ![t].live = FALSE]
                         ELSE tunnels
           /\ socat_tunnels' = IF attempted THEN Release(socat_tunnels, t)
                               ELSE socat_tunnels
           /\ local_tunnels' = IF attempted THEN Release(local_tunnels, t)
                               ELSE local_tunnels
           /\ closed' =
                  [n |-> closed.n + 1,
                   client |-> c,
                   nth |-> self.closeCalls + 1,
                   conn_raised |-> FALSE,
                   tunnel_attempted |-> attempted,
                   tunnel_raised |-> FALSE,
                   surfaced |-> Surfaced(FALSE, FALSE),
                   was_closed |-> self.cleanCloses > 0]
    /\ flows' = [flows EXCEPT ![f].pc = "done"]
    /\ UNCHANGED <<env, connections, calls, built, boot>>

NextPar ==
    \/ \E f \in 1..MaxFlows, kw \in ParKwargs : CtorAlloc(f, kw)
    \/ \E f \in 1..MaxFlows : CtorAcquire(f)
    \/ \E f \in 1..MaxFlows : CtorSuper(f)
    \/ \E f \in 1..MaxFlows : ParCloseConn(f)
    \/ \E f \in 1..MaxFlows : ParCloseTunnel(f)

SpecPar == InitPar /\ [][NextPar]_vars

----------------------------------------------------------------------------
(* Claims about the connection cache. *)

Returned(r) == ~r.raised
SamePair(a, b) == a.host = b.host /\ a.url = b.url

\* C1: once a get_connection call made under an ambient
\* (host_string, docker_base_url) pair has returned a client, every later
\* call under an equal pair returns that same client and runs no constructor:
\* the constructor succeeded once for the pair, whatever the later kwargs.
C1_SamePairSameClient ==
    \A i \in 1..Len(calls) :
        Returned(calls[i]) =>
            /\ \A j \in (i+1)..Len(calls) :
                   SamePair(calls[i], calls[j]) =>
                       /\ Returned(calls[j])
                       /\ calls[j].ret = calls[i].ret
                       /\ ~calls[j].ctor
            /\ Cardinality({k \in 1..Len(calls) :
                   /\ SamePair(calls[i], calls[k])
                   /\ calls[k].ctor
                   /\ Returned(calls[k])}) = 1

\* Two returning calls under one pair, with kwargs naming different endpoints.
C1_Witness ==
    \E i, j \in 1..Len(calls) :
        /\ i < j
        /\ SamePair(calls[i], calls[j])
        /\ Returned(calls[i]) /\ Returned(calls[j])
        /\ calls[i].target # calls[j].target
        /\ calls[i].ctor

\* C2: two returning connection requests that differ in the remote host or
\* in the endpoint they are configured for (the base_url kwarg when given,
\* else the ambient docker_base_url) never return the same client.
C2_NoAliasAcrossTargets ==
    \A i, j \in 1..Len(calls) :
        (/\ Returned(calls[i]) /\ Returned(calls[j])
         /\ \/ calls[i].host # calls[j].host
            \/ calls[i].target # calls[j].target)
        => calls[i].ret # calls[j].ret

AllocatorFailedStep ==
    /\ Len(calls') = Len(calls) + 1
    /\ calls'[Len(calls')].ctor
    /\ GetLocalPort(calls'[Len(calls')].requested) = {}

\* C14: when the allocator cannot obtain a local port, the construction
\* fails with an error: no client is created, no tunnel is created,
\* registered or left live, and the cache is as before, with no entry for
\* the key.
C14_AllocatorFailureLeavesNoTrace ==
    [][AllocatorFailedStep =>
          /\ calls'[Len(calls')].raised
          /\ calls'[Len(calls')].ret = NoClient
          /\ clients' = clients
          /\ tunnels' = tunnels
          /\ socat_tunnels' = socat_tunnels
          /\ local_tunnels' = local_tunnels
          /\ connections' = connections
          /\ <<env.host_string, env.docker_base_url>> \notin DOMAIN connections']_vars

\* The last call ran the constructor and raised while live tunnels held the
\* port it asked for and every ephemeral port, each of those tunnels owned by
\* an earlier client; the cache holds the earlier clients only.
C14_Witness ==
    /\ calls # << >>
    /\ calls[Len(calls)].ctor /\ calls[Len(calls)].raised
    /\ calls[Len(calls)].requested \in BoundPorts
    /\ EphemeralPorts \subseteq BoundPorts
    /\ \A t \in 1..Len(tunnels) : \E c \in 1..Len(clients) : clients[c].tunnel = t
    /\ connections # << >>
    /\ <<calls[Len(calls)].host, calls[Len(calls)].url>> \notin DOMAIN connections

\* One get_connection call (a step that appends to calls) returns a client
\* on which close() was never called and whose tunnel, if it has one, is live.
ReturnsUnclosedStep ==
    (Len(calls') = Len(calls) + 1 /\ Returned(calls'[Len(calls')])) =>
        LET self == clients'[calls'[Len(calls')].ret] IN
        /\ self.closeCalls = 0
        /\ self.open
        /\ self.tunnel # NoTunnel => tunnels'[self.tunnel].live

\* C20: every client get_connection returns is unclosed, with its tunnel
\* live: a client on which close() was called is not returned by a later
\* get_connection with the same key.
C20_NeverReturnsClosedClient == [][ReturnsUnclosedStep]_vars

----------------------------------------------------------------------------
(* Claims about the bootstrap (SpecBoot). *)

LogIndexes(ev, name) ==
    {i \in 1..Len(boot.log) : boot.log[i].ev = ev /\ boot.log[i].name = name}

\* The clients the bootstrap has stored are cached, unclosed, and their
\* tunnels live and registered.
StoredClientsIntact ==
    \A n \in DOMAIN boot.current_clients :
        LET id == boot.current_clients[n] IN
        /\ id \in Range(connections)
        /\ clients[id].open
        /\ clients[id].tunnel # NoTunnel =>
               /\ tunnels[clients[id].tunnel].live
               /\ \/ clients[id].tunnel \in Range(socat_tunnels)
                  \/ clients[id].tunnel \in Range(local_tunnels)

\* C3: during one from_env call every client name is switched to and
\* requested from the cache at most once, however many maps or container
\* configurations name it.
C3_OneRequestPerClient ==
    \A name \in ClientNames :
        /\ Cardinality(LogIndexes("request", name)) <= 1
        /\ Cardinality(LogIndexes("switch", name)) <= 1

\* A finished bootstrap of two maps that both name client "a".
C3_Witness ==
    /\ boot.pc = "done"
    /\ Len(boot.maps) = 2
    /\ "a" \in MapClients(boot.maps[1]) \cap MapClients(boot.maps[2])
    /\ Cardinality(LogIndexes("request", "a")) = 1

\* C4: from_env never switches to or requests a client that has no
\* configuration entry: reaching one ends the call with the not-configured
\* error, and the clients stored before it stay cached, unclosed, with their
\* tunnels live.
C4_UnconfiguredRaisesNoRollback ==
    /\ \A i \in 1..Len(boot.log) :
           boot.log[i].ev \in {"switch", "request"} =>
               boot.log[i].name \in DOMAIN boot.configs
    /\ (boot.pc = "raised" /\ boot.cur \notin DOMAIN boot.configs) =>
           boot.outcome = "not_configured"
    /\ boot.outcome = "not_configured" =>
           /\ boot.pc = "raised"
           /\ boot.cur \notin DOMAIN boot.configs
           /\ StoredClientsIntact

\* The not-configured error after another client was connected through a tunnel.
C4_Witness ==
    /\ boot.outcome = "not_configured"
    /\ \E n \in DOMAIN boot.current_clients :
           /\ clients[boot.current_clients[n]].tunnel # NoTunnel
           /\ tunnels[clients[boot.current_clients[n]].tunnel].live

\* C5: from_env never switches the host context for, or requests a
\* connection for, a client whose configuration has no fabric_host: reaching
\* one ends the call with the no-host error with nothing done for it.
C5_NoHostRaisesBeforeConnecting ==
    /\ \A i \in 1..Len(boot.log) :
           boot.log[i].ev \in {"switch", "request"} =>
               ConfigGet(boot.configs, boot.log[i].name).fabric_host # NoHost
    /\ (/\ boot.pc = "raised"
        /\ boot.cur \in DOMAIN boot.configs
        /\ boot.configs[boot.cur].fabric_host = NoHost) =>
           boot.outcome = "no_fabric_host"
    /\ boot.outcome = "no_fabric_host" =>
           /\ boot.pc = "raised"
           /\ LogIndexes("switch", boot.cur) = {}
           /\ LogIndexes("request", boot.cur) = {}
           /\ Len(calls) = Cardinality({i \in 1..Len(boot.log) :
                                           boot.log[i].ev = "request"})
           /\ StoredClientsIntact

\* The no-host error for one client after another was connected.
C5_Witness ==
    /\ boot.outcome = "no_fabric_host"
    /\ boot.configs[boot.cur].fabric_host = NoHost
    /\ boot.current_clients # << >>

----------------------------------------------------------------------------
(* Claims about construction and close (SpecCtor). *)

RECURSIVE DecimalValue(_)
\* The number a sequence of decimal digit characters denotes.
DecimalValue(digits) ==
    IF digits = << >> THEN 0
    ELSE LET d == digits[Len(digits)]
             v == CHOOSE k \in 0..9 : DigitChars[k+1] = d
         IN  10 * DecimalValue(SubSeq(digits, 1, Len(digits) - 1)) + v

\* The endpoint and remote port of the latest constructor call, resolved as
\* the claims word it: the explicit argument, else the ambient value.
BuiltEndpoint ==
    IF built.kw.base_url # NoUrl THEN built.kw.base_url ELSE env.docker_base_url
BuiltRemotePort ==
    IF built.kw.tunnel_remote_port # NoPort THEN built.kw.tunnel_remote_port
    ELSE env.docker_tunnel_remote_port
BuiltOk == built.n > 0 /\ ~built.raised

SocketEndpoint(u) ==
    \/ Len(u) >= 1 /\ u[1] = "/"
    \/ Len(u) >= 5 /\ SubSeq(u, 1, 5) = <<"u","n","i","x",":">>
    \/ Len(u) >= 10 /\ SubSeq(u, 1, 10) = <<"h","t","t","p","+","u","n","i","x",":">>

LoopbackPrefix ==
    <<"t","c","p",":","/","/","1","2","7",".","0",".","0",".","1",":">>

\* base_url is tcp://127.0.0.1:P
ConnectsToLoopback(base_url, P) ==
    /\ Len(base_url) > Len(LoopbackPrefix)
    /\ SubSeq(base_url, 1, Len(LoopbackPrefix)) = LoopbackPrefix
    /\ \A i \in (Len(LoopbackPrefix) + 1)..Len(base_url) :
           \E k \in 1..10 : DigitChars[k] = base_url[i]
    /\ DecimalValue(SubSeq(base_url, Len(LoopbackPrefix) + 1, Len(base_url))) = P

\* C6: a client constructed with an endpoint and a resolved remote port owns
\* a relay tunnel keyed (remote_host, P), registered in socat_tunnels, when
\* the endpoint begins with 'http+unix:', 'unix:' or '/', and otherwise a
\* forward tunnel keyed (remote_host, remote_port, 'localhost', P),
\* registered in local_tunnels; either way it connects to tcp://127.0.0.1:P,
\* P being the port the allocator returned.
C6_TunnelSelection ==
    (BuiltOk /\ BuiltEndpoint # NoUrl /\ BuiltRemotePort # NoPort) =>
        LET self == clients[built.id]
            t == self.tunnel
            P == built.local_port
        IN  /\ P # NoPort
            /\ t # NoTunnel
            /\ ConnectsToLoopback(self.base_url, P)
            /\ tunnels[t].local_port = P
            /\ IF SocketEndpoint(BuiltEndpoint)
               THEN /\ tunnels[t].kind = "relay"
                    /\ tunnels[t].key = <<RemoteHost(BuiltEndpoint), P>>
                    /\ tunnels[t].live =>
                           /\ tunnels[t].key \in DOMAIN socat_tunnels
                           /\ socat_tunnels[tunnels[t].key] = t
                    /\ \A k \in DOMAIN local_tunnels : local_tunnels[k] # t
               ELSE /\ tunnels[t].kind = "forward"
                    /\ tunnels[t].key =
                           <<RemoteHost(BuiltEndpoint), BuiltRemotePort, "localhost", P>>
                    /\ tunnels[t].live =>
                           /\ tunnels[t].key \in DOMAIN local_tunnels
                           /\ local_tunnels[tunnels[t].key] = t
                    /\ \A k \in DOMAIN socat_tunnels : socat_tunnels[k] # t

\* The latest client owns a live relay tunnel for an endpoint that is a socket
\* by its 'http+unix:' or '/' prefix, next to a client owning a forward tunnel.
C6_Witness ==
    /\ BuiltOk /\ BuiltEndpoint # NoUrl /\ BuiltRemotePort # NoPort
    /\ SocketEndpoint(BuiltEndpoint)
    /\ BuiltEndpoint # UnixUrl
    /\ tunnels[clients[built.id].tunnel].live
    /\ \E c \in 1..Len(clients) :
           /\ clients[c].tunnel # NoTunnel
           /\ tunnels[clients[c].tunnel].kind = "forward"

\* The tunnel of the latest constructor call, when it built a client with one.
BuiltTunnel == IF BuiltOk THEN clients[built.id].tunnel ELSE NoTunnel

Colons(u) == {i \in 1..Len(u) : u[i] = ":"}

\* C16, as stated: the remote host in the tunnel key is the text after the
\* last ':' of the endpoint when it holds a ':', and the whole endpoint
\* otherwise.
C16_HostAfterLastColon ==
    BuiltTunnel # NoTunnel =>
        LET u == BuiltEndpoint
            host == tunnels[BuiltTunnel].key[1]
        IN  IF Colons(u) = {} THEN host = u
            ELSE \E i \in Colons(u) :
                    /\ \A j \in Colons(u) : j <= i
                    /\ host = SubSeq(u, i + 1, Len(u))

\* C16, amended: the remote host in the tunnel key is the text after the
\* first ':' of the endpoint when some text follows that ':', the text before
\* it when nothing follows, and the whole endpoint when it holds no ':'.
C16_HostAfterFirstColon ==
    BuiltTunnel # NoTunnel =>
        LET u == BuiltEndpoint
            host == tunnels[BuiltTunnel].key[1]
        IN  IF Colons(u) = {} THEN host = u
            ELSE \E i \in Colons(u) :
                    /\ \A j \in Colons(u) : i <= j
                    /\ host = IF i < Len(u) THEN SubSeq(u, i + 1, Len(u))
                              ELSE SubSeq(u, 1, i - 1)

\* A client built for tcp://d:9 owns a tunnel whose key names the host //d:9,
\* next to one built for an endpoint that ends in its only ':'.
C16_Witness ==
    /\ BuiltTunnel # NoTunnel
    /\ BuiltEndpoint = TcpUrl
    /\ tunnels[BuiltTunnel].key[1] = <<"/","/","d",":","9">>
    /\ \E c \in 1..Len(clients) :
           /\ clients[c].tunnel # NoTunnel
           /\ tunnels[clients[c].tunnel].key[1] = <<"d">>
           /\ env.docker_base_url = TrailingColonUrl

\* C7: a constructor call with no tunnel_remote_port argument and no ambient
\* docker_tunnel_remote_port touches neither tunnel registry, and the client
\* it builds owns no tunnel and connects to the original endpoint.
C7_NoRemotePortNoTunnel ==
    (built.n > 0 /\ built.kw.tunnel_remote_port = NoPort
                 /\ env.docker_tunnel_remote_port = NoPort) =>
        /\ ~built.acquired
        /\ ~built.raised =>
               /\ clients[built.id].tunnel = NoTunnel
               /\ clients[built.id].base_url = BuiltEndpoint

\* A client built for a socket endpoint with no remote port resolved.
C7_Witness ==
    /\ BuiltOk
    /\ built.kw.tunnel_remote_port = NoPort
    /\ env.docker_tunnel_remote_port = NoPort
    /\ BuiltEndpoint = UnixUrl
    /\ clients[built.id].base_url = UnixUrl

\* C17: every live tunnel is the tunnel of some client, also after a
\* constructor call in which the underlying client constructor raised once
\* the tunnel had been acquired.
C17_EveryLiveTunnelOwned ==
    \A t \in LiveTunnels : \E c \in 1..Len(clients) : clients[c].tunnel = t

\* C8: every close() of a client that owns a tunnel calls the tunnel's
\* close, also when closing the API connection raised; and when the
\* connection close raised and the tunnel close did not, the connection
\* error is the one close() ends with.
C8_TunnelCloseAlwaysAttempted ==
    /\ (closed.n > 0 /\ clients[closed.client].tunnel # NoTunnel) =>
           /\ closed.tunnel_attempted
           /\ (closed.conn_raised /\ ~closed.tunnel_raised) =>
                  closed.surfaced = "conn"
    /\ \A c \in 1..Len(clients) :
           clients[c].tunnel # NoTunnel =>
               tunnels[clients[c].tunnel].closeCalls = clients[c].closeCalls

\* A close() whose connection close raised and whose tunnel was closed.
C8_Witness ==
    /\ closed.n > 0
    /\ closed.conn_raised
    /\ closed.tunnel_attempted /\ ~closed.tunnel_raised
    /\ closed.surfaced = "conn"
    /\ ~tunnels[clients[closed.client].tunnel].live

Registered(t) ==
    \/ \E k \in DOMAIN socat_tunnels : socat_tunnels[k] = t
    \/ \E k \in DOMAIN local_tunnels : local_tunnels[k] = t

\* A tunnel is live and registered as long as close() was never called on
\* its owner, is down and out of its registry once a close() of its owner
\* has returned, and is never down without a close() of its owner.
TornDownWithOwner ==
    /\ \A c \in 1..Len(clients) :
           LET t == clients[c].tunnel IN
           t # NoTunnel =>
               /\ clients[c].closeCalls = 0 => tunnels[t].live /\ Registered(t)
               /\ clients[c].cleanCloses > 0 => ~tunnels[t].live /\ ~Registered(t)
    /\ \A t \in 1..Len(tunnels) :
           ~tunnels[t].live =>
               \E c \in 1..Len(clients) :
                   clients[c].tunnel = t /\ clients[c].closeCalls > 0

\* A constructor call that asks for the local port of the tunnel of a client
\* whose close() has returned, while no other tunnel holds that port, gets
\* that port.
PortReusedStep ==
    (/\ built'.n = built.n + 1
     /\ \E c \in 1..Len(clients) :
           LET t == clients[c].tunnel IN
           /\ t # NoTunnel
           /\ clients[c].cleanCloses > 0
           /\ tunnels[t].local_port = built'.requested
           /\ \A u \in LiveTunnels \ {t} :
                  tunnels[u].local_port # built'.requested) =>
        built'.local_port = built'.requested

\* C18: a tunnel is torn down exactly when its owning client is closed: it
\* stays live until close() is called on the owner, once close() has
\* returned it is closed and its local port free, and a client constructed
\* afterwards with that port as its hint obtains that port.
C18_TunnelTornDownOnClose == []TornDownWithOwner /\ [][PortReusedStep]_vars

\* A client was closed and its tunnel is down; a later client asked for the
\* same local port and owns a live tunnel on it.
C18_Witness ==
    /\ BuiltTunnel # NoTunnel
    /\ tunnels[BuiltTunnel].live
    /\ built.local_port = built.requested
    /\ \E c \in 1..Len(clients) :
           LET t == clients[c].tunnel IN
           /\ t # NoTunnel /\ t < BuiltTunnel
           /\ clients[c].cleanCloses > 0
           /\ ~tunnels[t].live
           /\ tunnels[t].local_port = built.local_port

\* C9: a close() of a client that an earlier close() closed without error
\* does not release the tunnel again.
C9_SecondCloseReleasesNothing ==
    (closed.n > 0 /\ closed.was_closed) => ~closed.tunnel_attempted

----------------------------------------------------------------------------
(* Claims about the local ports (SpecPar). *)

\* C11: no two live tunnels, relay or forward, are bound to the same local
\* port, also when the constructions of several clients interleave.
C11_NoSharedLocalPort ==
    \A i, j \in LiveTunnels :
        i # j => tunnels[i].local_port # tunnels[j].local_port

\* Two constructors asked for the same port, the second while the first had
\* not yet bound its own, and both now own a live tunnel, one a relay and one
\* a forward.
C11_Witness ==
    /\ \A f \in DOMAIN flows : flows[f].pc = "done"
    /\ \E f, g \in DOMAIN flows :
          /\ InitLocalPort(flows[f].kw, env) = InitLocalPort(flows[g].kw, env)
          /\ flows[g].overlap
          /\ LET tf == clients[flows[f].id].tunnel
                 tg == clients[flows[g].id].tunnel
             IN  /\ tf # NoTunnel /\ tg # NoTunnel /\ tf # tg
                 /\ tunnels[tf].live /\ tunnels[tg].live
                 /\ tunnels[tf].kind = "relay" /\ tunnels[tg].kind = "forward"

\* One constructor call (a step that counts up built.n) made with a resolved
\* remote port and no tunnel_local_port argument, and, when no_ambient_hint,
\* with no ambient docker_tunnel_local_port either: the port asked of the
\* allocator is the remote port; when a live tunnel holds that port, the call
\* gets another port that no live tunnel holds, and the new tunnel's key and
\* the connect target carry that port.
SubstitutePortStep(no_ambient_hint) ==
    LET kw == built'.kw
        remote == IF kw.tunnel_remote_port # NoPort THEN kw.tunnel_remote_port
                  ELSE env.docker_tunnel_remote_port
        endpoint == IF kw.base_url # NoUrl THEN kw.base_url ELSE env.docker_base_url
        P == built'.local_port
    IN  (/\ built'.n = built.n + 1
         /\ kw.tunnel_local_port = NoPort
         /\ no_ambient_hint => env.docker_tunnel_local_port = NoPort
         /\ remote # NoPort) =>
            /\ built'.requested = remote
            /\ (remote \in BoundPorts /\ ~built'.raised) =>
                   /\ P # NoPort /\ P # remote
                   /\ P \notin BoundPorts
                   /\ endpoint # NoUrl =>
                          LET self == clients'[built'.id]
                              t == self.tunnel
                          IN  /\ t # NoTunnel
                              /\ t \notin DOMAIN tunnels
                              /\ tunnels'[t].local_port = P
                              /\ tunnels'[t].key[Len(tunnels'[t].key)] = P
                              /\ ConnectsToLoopback(self.base_url, P)

\* One constructor call made with no tunnel_local_port argument under an
\* ambient docker_tunnel_local_port asks the allocator for the ambient value.
AmbientHintStep ==
    (/\ built'.n = built.n + 1
     /\ built'.kw.tunnel_local_port = NoPort
     /\ env.docker_tunnel_local_port # NoPort) =>
        built'.requested = env.docker_tunnel_local_port

\* C12, as stated: a client constructed with a remote port and no
\* tunnel_local_port argument asks the allocator for the remote port, and
\* gets a substitute, used in the tunnel key and the connect target, when a
\* live tunnel holds that port.
C12_RequestsRemotePort == [][SubstitutePortStep(FALSE)]_vars

\* C12, amended: the same, for a client constructed with a remote port, no
\* tunnel_local_port argument and no ambient docker_tunnel_local_port; an
\* ambient docker_tunnel_local_port is the port asked for when it is set.
C12_RequestsRemotePortUnlessAmbient ==
    [][SubstitutePortStep(TRUE) /\ AmbientHintStep]_vars

\* A client built with no local port hint of either kind while a live tunnel
\* held its remote port: it owns a live tunnel on another port.
C12_Witness ==
    /\ BuiltOk
    /\ built.kw.tunnel_local_port = NoPort
    /\ env.docker_tunnel_local_port = NoPort
    /\ BuiltRemotePort # NoPort
    /\ built.requested = BuiltRemotePort
    /\ built.local_port # built.requested
    /\ clients[built.id].tunnel # NoTunnel
    /\ tunnels[clients[built.id].tunnel].live
    /\ tunnels[clients[built.id].tunnel].local_port = built.local_port
    /\ \E i \in LiveTunnels : tunnels[i].local_port = built.requested

----------------------------------------------------------------------------
(* Claims about the order and the extent of the bootstrap (SpecBoot). *)

RECURSIVE Flatten(_)
\* The concatenation of a sequence of sequences.
Flatten(ss) == IF ss = << >> THEN << >> ELSE Head(ss) \o Flatten(Tail(ss))

\* The client names of a map in the order they are declared: the map's own
\* clients, then each container configuration's clients.
Declared(c_map) == c_map.clients \o Flatten(c_map.configs)

\* The names of all maps, map after map.
DeclaredAll(maps) == Flatten([i \in 1..Len(maps) |-> Declared(maps[i])])

\* Where name is declared first.
FirstIndex(seq, name) ==
    CHOOSE i \in 1..Len(seq) : seq[i] = name /\ \A j \in 1..(i-1) : seq[j] # name

RequestEvents == {i \in 1..Len(boot.log) : boot.log[i].ev = "request"}

\* C13: from_env requests connections in declaration order: a client
\* declared earlier (in an earlier map, or earlier within the same map) is
\* requested before one declared later.
C13_DeclarationOrder ==
    \A i, j \in RequestEvents :
        i < j =>
            FirstIndex(DeclaredAll(boot.maps), boot.log[i].name)
                < FirstIndex(DeclaredAll(boot.maps), boot.log[j].name)

\* The distinct client names the given maps reference.
Referenced == UNION {MapClients(boot.maps[i]) : i \in 1..Len(boot.maps)}

DefaultEvents == {i \in 1..Len(boot.log) : boot.log[i].ev = "default"}

\* Every connection request of the bootstrap is for a referenced client, one
\* call of get_connection each.
RequestsAreReferenced ==
    /\ \A i \in RequestEvents : boot.log[i].name \in Referenced
    /\ \A i, j \in RequestEvents : boot.log[i].name = boot.log[j].name => i = j

\* C15, as stated: the bootstrap asks the cache for exactly one connection
\* per distinct referenced client and for nothing else, the construction of
\* the returned ContainerFabric included.
C15_OnlyReferencedClients ==
    /\ RequestsAreReferenced
    /\ Len(calls) = Cardinality(RequestEvents)
    /\ boot.pc = "done" => Cardinality(RequestEvents) = Cardinality(Referenced)

\* C15, amended: the bootstrap asks the cache for exactly one connection per
\* distinct referenced client, and, when the ambient context holds a
\* docker_base_url, for one more: the default client of the returned
\* ContainerFabric, requested last, under the ambient host, with no kwargs.
C15_ReferencedClientsPlusDefault ==
    /\ RequestsAreReferenced
    /\ Len(calls) = Cardinality(RequestEvents) + Cardinality(DefaultEvents)
    /\ \A i \in DefaultEvents :
           /\ i = Len(boot.log)
           /\ env.docker_base_url # NoUrl
           /\ boot.log[i].host = env.host_string
           /\ calls[Len(calls)].target = env.docker_base_url
           /\ boot.pc \in {"done", "raised"}
    /\ boot.pc = "done" =>
           /\ Cardinality(RequestEvents) = Cardinality(Referenced)
           /\ Cardinality(DefaultEvents) = IF env.docker_base_url # NoUrl THEN 1 ELSE 0

\* A finished bootstrap of two referenced clients under an ambient context
\* with an endpoint: a third request was made, and its client is none of the
\* referenced clients' clients.
C15_Witness ==
    /\ boot.pc = "done"
    /\ Cardinality(Referenced) = 2
    /\ Cardinality(DefaultEvents) = 1
    /\ Len(calls) = 3
    /\ calls[3].ctor
    /\ boot.default_client \notin Range(boot.current_clients)

\* C19: the active host_string equals the one from_env was called under
\* at every point of the call, its return and each of its errors included,
\* except while one client's connection is being obtained, when it is that
\* client's fabric_host; every request for a client is made under its
\* fabric_host.
C19_HostStringRestored ==
    /\ boot.pc # "connect" => env.host_string = boot.start_host
    /\ boot.pc = "connect" =>
           env.host_string = ConfigGet(boot.configs, boot.cur).fabric_host
    /\ \A i \in RequestEvents :
           boot.log[i].host = ConfigGet(boot.configs, boot.log[i].name).fabric_host
    /\ \A i \in DefaultEvents : boot.log[i].host = boot.start_host

\* from_env ended with an error raised while a connection was being
\* constructed under another host than the caller's, after an earlier client
\* was connected; the caller's host is active again.
C19_Witness ==
    /\ boot.outcome = "connection_error"
    /\ boot.cur \in DOMAIN boot.configs
    /\ boot.configs[boot.cur].fabric_host # boot.start_host
    /\ boot.log[Len(boot.log)].ev = "request"
    /\ boot.log[Len(boot.log)].host # boot.start_host
    /\ boot.current_clients # << >>
    /\ env.host_string = boot.start_host

====
